---- MODULE Spec2Model ----
(***************************************************************************)
(* The mail worker of package mailer: the dispatch loop MailWorker.Start,  *)
(* the per-batch goroutine it launches, errorMail, dialHost, sendMail and  *)
(* sendDelayedMail.  Every call made on a Mail (Generate, Success,         *)
(* Backoff, Error), on a Dialer (Dial) and on a Sender (Send, Reset,       *)
(* Close) is recorded, in call order, in the goroutine's call log.         *)
(***************************************************************************)
EXTENDS Integers, Sequences, FiniteSets, TLC

\* var MaxReconnectAttempts = 10
MaxReconnectAttempts == 10

\* Bounds of the model.
MaxBatches == 1     \* batches the producers hand to the queue in one run
MaxMsgs == 2        \* messages carried by all batches of one run together

Units == 1..MaxBatches

\* Pacing delays (seconds) a producer may put in a MailBundle.
Delays == {0, 1}

\* Reply codes of a textproto.Error returned by gomail.Send.
Codes == {399, 400, 499, 500}

\* The nil Sender.
Nil == 0

--------------------------------------------------------------------------
\* error values
NoErr == [kind |-> "nil", code |-> 0]
GetDialerErr == [kind |-> "getdialer", code |-> 0]
RenderErr == [kind |-> "render", code |-> 0]
\* *textproto.Error with Code c
ProtoErr(c) == [kind |-> "proto", code |-> c]
\* any error of gomail.Send that is not a *textproto.Error
ConnErr == [kind |-> "conn", code |-> 0]
\* the error of the a-th Dial() of one dialHost call
DialErr(a) == [kind |-> "dial", code |-> a]
\* &ErrMaxConnectAttempts{underlyingError: e}
ErrMaxConnectAttempts(e) == [kind |-> "max", code |-> e.code]

\* one recorded call: op on message m (0: none) and connection conn (0: none).
\* Beside the calls on a Mail, a Dialer and a Sender, the log records the entry
\* of sendMail ("sendMail", with its first message), its return ("return") and
\* the return of dialHost ("dialHost", with the sender and error it returns).
\* A Dial() that fails is counted by sendAttempt and not recorded.
Ev(op, m, conn, e) == [op |-> op, m |-> m, conn |-> conn, err |-> e]

VARIABLES
  cancelled,    \* ctx.Done() is closed
  returned,     \* MailWorker.Start has returned
  launched,     \* number of batches received, each run by its own goroutine
  pc,           \* position of each batch's goroutine
  Mails,        \* len(mb.Mails)
  Delay,        \* mb.Delay
  k,            \* sendDelayedMail: 1-based index of the range loop
  i,            \* sendMail: 1-based batch index of the range loop's message
  sender,       \* sendMail: sender
  deferred,     \* sendMail: receiver bound by "defer sender.Close()"
  err,          \* err of the running function
  origErr,      \* sendMail: origErr
  sendAttempt,  \* dialHost: sendAttempt
  ret,          \* dialHost: the call site to return to
  calls,        \* call log of each goroutine
  ticks,        \* firings of the goroutine's ticker that reached its channel
  tick,         \* a value is buffered in the ticker's channel
  cancelAt      \* the message sendMail was processing when ctx was cancelled (0: none)

vars == <<cancelled, returned, launched, pc, Mails, Delay, k, i, sender,
          deferred, err, origErr, sendAttempt, ret, calls, ticks, tick, cancelAt>>

Upd(f, u, v) == [f EXCEPT ![u] = v]

\* a panic in any goroutine ends the process
Crashed == \E u \in Units : pc[u] = "fault"

\* messages handed to the worker so far
Handed == LET S[u \in 0..MaxBatches] == IF u = 0 THEN 0 ELSE S[u - 1] + Mails[u]
          IN S[MaxBatches]

\* if mb.Delay <= 0 { sendMail } else { sendDelayedMail }
Plain(d) == d <= 0

\* sendMail's ms, as a range of batch indexes: the whole batch, or []Mail{m}
First(u) == IF Plain(Delay[u]) THEN 1 ELSE k[u]
Last(u) == IF Plain(Delay[u]) THEN Mails[u] ELSE k[u]

\* the connection a successful Dial() returns: never handed out before
NewConn(u) == 1 + Cardinality({x \in 1..Len(calls[u]) : calls[u][x].op = "Dial"})

Init ==
  /\ cancelled = FALSE
  /\ returned = FALSE
  /\ launched = 0
  /\ pc = [u \in Units |-> "idle"]
  /\ Mails = [u \in Units |-> 0]
  /\ Delay = [u \in Units |-> 0]
  /\ k = [u \in Units |-> 0]
  /\ i = [u \in Units |-> 0]
  /\ sender = [u \in Units |-> Nil]
  /\ deferred = [u \in Units |-> Nil]
  /\ err = [u \in Units |-> NoErr]
  /\ origErr = [u \in Units |-> NoErr]
  /\ sendAttempt = [u \in Units |-> 0]
  /\ ret = [u \in Units |-> "none"]
  /\ calls = [u \in Units |-> <<>>]
  /\ ticks = [u \in Units |-> 0]
  /\ tick = [u \in Units |-> FALSE]
  /\ cancelAt = [u \in Units |-> 0]

--------------------------------------------------------------------------
\* sendMail is past the select of its range loop for message i and has not
\* finished the render, the send or the reconnection of that message
Processing(u) ==
  \/ pc[u] = "sendMail"
  \/ pc[u] = "dialHost" /\ ret[u] = "re"

\* the caller's cancel(): ctx.Done() is closed, once and for all
Cancel ==
  /\ ~cancelled
  /\ ~Crashed
  /\ cancelled' = TRUE
  /\ cancelAt' = [u \in Units |-> IF Processing(u) THEN i[u] ELSE 0]
  /\ UNCHANGED <<returned, launched, pc, Mails, Delay, k, i, sender, deferred,
                 err, origErr, sendAttempt, ret, calls, ticks, tick>>

\* Start: case mb := <-mw.Queue, go func(ctx, mb)
Receive(n, d) ==
  /\ ~returned
  /\ ~Crashed
  /\ launched < MaxBatches
  /\ Handed + n <= MaxMsgs
  /\ launched' = launched + 1
  /\ pc' = Upd(pc, launched + 1, "getDialer")
  /\ Mails' = Upd(Mails, launched + 1, n)
  /\ Delay' = Upd(Delay, launched + 1, d)
  /\ UNCHANGED <<cancelled, returned, k, i, sender, deferred, err, origErr,
                 sendAttempt, ret, calls, ticks, tick, cancelAt>>

\* Start: case <-ctx.Done(): return
StartReturn ==
  /\ ~returned
  /\ ~Crashed
  /\ cancelled
  /\ returned' = TRUE
  /\ UNCHANGED <<cancelled, launched, pc, Mails, Delay, k, i, sender, deferred,
                 err, origErr, sendAttempt, ret, calls, ticks, tick, cancelAt>>

--------------------------------------------------------------------------
\* the locals of the goroutine of batch u, and its call log
Frame(u) ==
  [pc |-> pc[u], k |-> k[u], i |-> i[u], sender |-> sender[u],
   deferred |-> deferred[u], err |-> err[u], origErr |-> origErr[u],
   sendAttempt |-> sendAttempt[u], ret |-> ret[u], calls |-> calls[u],
   tick |-> tick[u]]

\* goroutine u moves to frame f
Goto(u, f) ==
  /\ ~Crashed
  /\ pc' = Upd(pc, u, f.pc)
  /\ k' = Upd(k, u, f.k)
  /\ i' = Upd(i, u, f.i)
  /\ sender' = Upd(sender, u, f.sender)
  /\ deferred' = Upd(deferred, u, f.deferred)
  /\ err' = Upd(err, u, f.err)
  /\ origErr' = Upd(origErr, u, f.origErr)
  /\ sendAttempt' = Upd(sendAttempt, u, f.sendAttempt)
  /\ ret' = Upd(ret, u, f.ret)
  /\ calls' = Upd(calls, u, f.calls)
  /\ tick' = Upd(tick, u, f.tick)
  /\ UNCHANGED <<cancelled, returned, launched, Mails, Delay, ticks, cancelAt>>

\* A step of a goroutine runs from one point where it looks at something
\* shared (ctx.Done(), the ticker's channel) or calls Dial() to the next such
\* point: what lies between touches nothing another goroutine or the caller
\* of cancel() can see.

\* sendMail returns to the goroutine, or to sendDelayedMail's range loop; the
\* deferred sender.Close(), when one was registered, runs on the receiver the
\* defer statement bound
Closed(f) ==
  IF f.deferred = Nil THEN <<>> ELSE <<Ev("Close", 0, f.deferred, NoErr)>>

SendMailReturns(u, f) ==
  [f EXCEPT !.pc = IF Plain(Delay[u]) THEN "done" ELSE "sendDelayedMail",
            !.k = IF Plain(Delay[u]) THEN @ ELSE @ + 1,
            !.i = 0, !.sender = Nil, !.deferred = Nil, !.err = NoErr,
            !.origErr = NoErr, !.sendAttempt = 0, !.ret = "none",
            !.calls = @ \o Closed(f) \o <<Ev("return", 0, 0, NoErr)>>]

\* ErrorMail with the range loop stopping before the last message
ErrorMailButLast(f, e, from, to) ==
  [f EXCEPT !.calls = @ \o [x \in 1..(to - from) |-> Ev("Error", from + x - 1, 0, e)]]

\* errorMail(err, ms[from..to]): for _, m := range ms { m.Error(err) }
ErrorMail(f, e, from, to) ==
  [f EXCEPT !.calls = @ \o [x \in 1..(to - from + 1) |-> Ev("Error", from + x - 1, 0, e)]]

\* SendMailLoop with the range loop leaving out the last message
SendMailLoopButLast(u, f) ==
  IF f.i >= Last(u) \/ cancelled
    THEN SendMailReturns(u, f)
    ELSE [f EXCEPT !.pc = "sendMail"]

\* sendMail: the top of its range loop,
\*   for i, m := range ms { select { case <-ctx.Done(): return; default: } ...
\* reached when the loop is entered and after each message
SendMailLoop(u, f) ==
  IF f.i > Last(u) \/ cancelled
    THEN SendMailReturns(u, f)
    ELSE [f EXCEPT !.pc = "sendMail"]

--------------------------------------------------------------------------
\* CeilingReached with sendAttempt > MaxReconnectAttempts
CeilingReachedLate(a) == a > MaxReconnectAttempts

\* if sendAttempt == MaxReconnectAttempts
CeilingReached(a) == a = MaxReconnectAttempts

\* SendMailDialed with errorMail(err, ms[1:]): the first message is skipped
SendMailDialedSkipsFirst(u, f, s, e) ==
  IF e # NoErr
    THEN SendMailReturns(u, ErrorMail([f EXCEPT !.sender = s, !.err = e],
                                      e, First(u) + 1, Last(u)))
    ELSE IF s = Nil
      THEN [f EXCEPT !.pc = "fault", !.sender = s, !.err = e, !.sendAttempt = 0]
      ELSE SendMailLoop(u, [f EXCEPT !.sender = s, !.err = e, !.deferred = s,
                                     !.i = First(u), !.sendAttempt = 0])

\* sendMail: sender, err := dialHost(ctx, dialer) has returned (s, e).
\* err != nil: errorMail(err, ms) and return.  Otherwise "defer sender.Close()"
\* binds its receiver now: with a nil sender the method lookup panics.
SendMailDialed(u, f, s, e) ==
  IF e # NoErr
    THEN SendMailReturns(u, ErrorMail([f EXCEPT !.sender = s, !.err = e],
                                      e, First(u), Last(u)))
    ELSE IF s = Nil
      THEN [f EXCEPT !.pc = "fault", !.sender = s, !.err = e, !.sendAttempt = 0]
      ELSE SendMailLoop(u, [f EXCEPT !.sender = s, !.err = e, !.deferred = s,
                                     !.i = First(u), !.sendAttempt = 0])

\* BackoffReason with m.Backoff(err): the error dialHost returned
BackoffReasonErr(f, e) == e

\* the error handed to m.Backoff after a reconnection
BackoffReason(f, e) == f.origErr

\* SendMailRedialed with errorMail(err, ms[i+1:]): the failed message is skipped
SendMailRedialedSkipsFailed(u, f, s, e) ==
  IF e # NoErr
    THEN SendMailReturns(u, ErrorMail([f EXCEPT !.sender = s, !.err = e],
                                      e, f.i + 1, Last(u)))
    ELSE SendMailLoop(u, [f EXCEPT !.sender = s, !.err = e, !.i = @ + 1,
                                   !.calls = Append(@, Ev("Backoff", f.i, 0, f.origErr)),
                                   !.sendAttempt = 0])

\* SendMailRedialed with errorMail(err, ms): the whole batch is errored out
SendMailRedialedErrorsAll(u, f, s, e) ==
  IF e # NoErr
    THEN SendMailReturns(u, ErrorMail([f EXCEPT !.sender = s, !.err = e],
                                      e, First(u), Last(u)))
    ELSE SendMailLoop(u, [f EXCEPT !.sender = s, !.err = e, !.i = @ + 1,
                                   !.calls = Append(@, Ev("Backoff", f.i, 0, f.origErr)),
                                   !.sendAttempt = 0])

\* sendMail: sender, err = dialHost(ctx, dialer) has returned (s, e) after a
\* send failed with no *textproto.Error.  err != nil: errorMail(err, ms[i:])
\* and break.  Otherwise m.Backoff(origErr) and continue.
SendMailRedialed(u, f, s, e) ==
  IF e # NoErr
    THEN SendMailReturns(u, ErrorMail([f EXCEPT !.sender = s, !.err = e],
                                      e, f.i, Last(u)))
    ELSE SendMailLoop(u, [f EXCEPT !.sender = s, !.err = e, !.i = @ + 1,
                                   !.calls = Append(@, Ev("Backoff", f.i, 0, BackoffReason(f, e))),
                                   !.sendAttempt = 0])

\* dialHost returns (s, e) to the call site it was called from; the return is
\* recorded in the call log
DialHostReturns(u, f, s, e) ==
  LET g == [f EXCEPT !.calls = Append(@, Ev("dialHost", 0, s, e))]
  IN IF f.ret = "init" THEN SendMailDialed(u, g, s, e)
                       ELSE SendMailRedialed(u, g, s, e)

\* dialHost: the top of its for loop,
\*   select { case <-ctx.Done(): return nil, nil; default: }
\* reached on entry and after each failed Dial() below the ceiling
DialHostLoop(u, f) ==
  IF cancelled THEN DialHostReturns(u, f, Nil, NoErr)
               ELSE [f EXCEPT !.pc = "dialHost"]

\* sendMail(ctx, dialer, ms) is entered and calls dialHost(ctx, dialer):
\* sendAttempt := 0
EnterSendMail(u, f) ==
  DialHostLoop(u, [f EXCEPT !.ret = "init", !.sendAttempt = 0,
                            !.calls = Append(@, Ev("sendMail", First(u), 0, NoErr))])

\* dialHost: the rest of one iteration of its for loop.
\*   sender, err = dialer.Dial(); if err == nil { break }
\*   sendAttempt++; if sendAttempt == MaxReconnectAttempts { err = &Err...; break }
DialHost(u) ==
  /\ pc[u] = "dialHost"
  /\ \/ \* Dial() succeeds
        LET c == NewConn(u)
            f == [Frame(u) EXCEPT !.calls = Append(@, Ev("Dial", 0, c, NoErr))]
        IN Goto(u, DialHostReturns(u, f, c, NoErr))
     \/ \* Dial() fails below the ceiling: next iteration
        /\ ~CeilingReached(sendAttempt[u] + 1)
        /\ Goto(u, DialHostLoop(u, [Frame(u) EXCEPT !.sendAttempt = @ + 1,
                                                     !.err = DialErr(sendAttempt[u] + 1)]))
     \/ \* Dial() fails and the ceiling is reached
        /\ CeilingReached(sendAttempt[u] + 1)
        /\ Goto(u, DialHostReturns(u, Frame(u), Nil,
                                   ErrMaxConnectAttempts(DialErr(sendAttempt[u] + 1))))

--------------------------------------------------------------------------
\* dialer, err := ms[0].GetDialer() returned err e
GotDialer(f, e) == [f EXCEPT !.calls = Append(@, Ev("GetDialer", 1, 0, e))]

\* the goroutine: dialer, err := ms[0].GetDialer(), and the call it leads to
GetDialer(u) ==
  /\ pc[u] = "getDialer"
  /\ \/ /\ Mails[u] = 0            \* ms[0]: index out of range
        /\ Goto(u, [Frame(u) EXCEPT !.pc = "fault"])
     \/ /\ Mails[u] > 0            \* err != nil: errorMail(err, ms); return
        /\ Goto(u, [ErrorMail(GotDialer(Frame(u), GetDialerErr), GetDialerErr, 1, Mails[u])
                      EXCEPT !.pc = "done"])
     \/ /\ Mails[u] > 0            \* sendMail(ctx, dialer, ms)
        /\ Plain(Delay[u])
        /\ Goto(u, EnterSendMail(u, GotDialer(Frame(u), NoErr)))
     \/ /\ Mails[u] > 0            \* sendDelayedMail: tick := time.NewTicker(interval).C
        /\ ~Plain(Delay[u])
        /\ Goto(u, [GotDialer(Frame(u), NoErr) EXCEPT !.pc = "sendDelayedMail", !.k = 1])

--------------------------------------------------------------------------
\* message.Reset(); err = m.Generate(message) succeeded
Rendered(f) ==
  [f EXCEPT !.err = NoErr, !.calls = Append(@, Ev("Generate", f.i, 0, NoErr))]

\* RenderFailed with sender.Reset() after m.Error(err)
RenderFailedResets(f) ==
  [f EXCEPT !.i = @ + 1, !.err = RenderErr,
            !.calls = @ \o <<Ev("Generate", f.i, 0, RenderErr),
                             Ev("Error", f.i, 0, RenderErr),
                             Ev("Reset", 0, f.sender, NoErr)>>]

\* RenderFailed without the call of m.Error(err)
RenderFailedUnnotified(f) ==
  [f EXCEPT !.i = @ + 1, !.err = RenderErr,
            !.calls = @ \o <<Ev("Generate", f.i, 0, RenderErr)>>]

\* err = m.Generate(message) failed: m.Error(err); continue
RenderFailed(f) ==
  [f EXCEPT !.i = @ + 1, !.err = RenderErr,
            !.calls = @ \o <<Ev("Generate", f.i, 0, RenderErr),
                             Ev("Error", f.i, 0, RenderErr)>>]

\* Temporary with te.Code > 400
TemporaryAbove400(c) == c > 400 /\ c <= 499

\* Temporary with te.Code <= 500
TemporaryUpTo500(c) == c >= 400 /\ c <= 500

\* case te.Code >= 400 && te.Code <= 499
Temporary(c) == c >= 400 /\ c <= 499

\* the calls made for a send that failed with *textproto.Error e: m.Backoff(err)
\* for a temporary error, m.Error(err) for a permanent or any other one, and
\* sender.Reset() in each case
Rejection(f, e) ==
  IF Temporary(e.code)
    THEN <<Ev("Backoff", f.i, 0, e), Ev("Reset", 0, f.sender, NoErr)>>
    ELSE <<Ev("Error", f.i, 0, e), Ev("Reset", 0, f.sender, NoErr)>>

\* Sent without the call of m.Success()
SentUnnotified(f) ==
  [f EXCEPT !.i = @ + 1, !.err = NoErr,
            !.calls = @ \o <<Ev("Send", f.i, f.sender, NoErr)>>]

\* gomail.Send succeeded: m.Success()
Sent(f) ==
  [f EXCEPT !.i = @ + 1, !.err = NoErr,
            !.calls = @ \o <<Ev("Send", f.i, f.sender, NoErr),
                             Ev("Success", f.i, 0, NoErr)>>]

\* gomail.Send failed with *textproto.Error e: ...; continue
Rejected(f, e) ==
  [f EXCEPT !.i = @ + 1, !.err = e,
            !.calls = @ \o <<Ev("Send", f.i, f.sender, e)>> \o Rejection(f, e)]

\* gomail.Send failed with another error: origErr := err; dialHost(ctx, dialer)
Dropped(u, f) ==
  DialHostLoop(u, [f EXCEPT !.ret = "re", !.sendAttempt = 0, !.err = ConnErr,
                            !.origErr = ConnErr,
                            !.calls = Append(@, Ev("Send", f.i, f.sender, ConnErr))])

\* sendMail: the body of its range loop for message i, after the select:
\* m.Generate(message), gomail.Send(sender, message) and the handling of
\* their results
SendMail(u) ==
  /\ pc[u] = "sendMail"
  /\ \/ Goto(u, SendMailLoop(u, RenderFailed(Frame(u))))
     \/ Goto(u, SendMailLoop(u, Sent(Rendered(Frame(u)))))
     \/ \E c \in Codes : Goto(u, SendMailLoop(u, Rejected(Rendered(Frame(u)), ProtoErr(c))))
     \/ Goto(u, Dropped(u, Rendered(Frame(u))))

--------------------------------------------------------------------------
\* the ticker of sendDelayedMail fires: its channel buffers one value, and a
\* firing that finds the buffer full is dropped.  The goroutine looks at the
\* channel only in sendDelayedMail's select, so a firing during sendMail is
\* taken as a firing at the select that follows it.
Tick(u) ==
  /\ ~Crashed
  /\ pc[u] = "sendDelayedMail"
  /\ ~tick[u]
  /\ ticks' = Upd(ticks, u, ticks[u] + 1)
  /\ tick' = Upd(tick, u, TRUE)
  /\ UNCHANGED <<cancelled, returned, launched, pc, Mails, Delay, k, i, sender,
                 deferred, err, origErr, sendAttempt, ret, calls, cancelAt>>

\* SendDelayedMail with sendMail called without waiting for a tick
SendDelayedMailUnpaced(u) ==
  /\ pc[u] = "sendDelayedMail"
  /\ \/ /\ k[u] > Mails[u]
        /\ Goto(u, [Frame(u) EXCEPT !.pc = "done"])
     \/ /\ k[u] <= Mails[u]
        /\ cancelled
        /\ Goto(u, [Frame(u) EXCEPT !.pc = "done"])
     \/ /\ k[u] <= Mails[u]
        /\ Goto(u, EnterSendMail(u, [Frame(u) EXCEPT !.tick = FALSE]))

\* sendDelayedMail: for i, m := range ms { select { case <-ctx.Done(): return
\* case <-tick: sendMail(ctx, dialer, []Mail{m}) } }
SendDelayedMail(u) ==
  /\ pc[u] = "sendDelayedMail"
  /\ \/ /\ k[u] > Mails[u]
        /\ Goto(u, [Frame(u) EXCEPT !.pc = "done"])
     \/ /\ k[u] <= Mails[u]
        /\ cancelled
        /\ Goto(u, [Frame(u) EXCEPT !.pc = "done"])
     \/ /\ k[u] <= Mails[u]
        /\ tick[u]
        /\ Goto(u, EnterSendMail(u, [Frame(u) EXCEPT !.tick = FALSE]))

--------------------------------------------------------------------------
Next ==
  \/ Cancel
  \/ \E n \in 0..MaxMsgs, d \in Delays : Receive(n, d)
  \/ StartReturn
  \/ \E u \in Units :
       \/ GetDialer(u)
       \/ DialHost(u)
       \/ SendMail(u)
       \/ Tick(u)
       \/ SendDelayedMail(u)

Spec == Init /\ [][Next]_vars

\* The Go scheduler runs every runnable goroutine again: the goroutine of each
\* batch and the one running Start, whose select takes a ready case; a
\* running ticker fires again.
LiveSpec ==
  /\ Spec
  /\ WF_vars(StartReturn)
  /\ \A u \in Units :
       /\ WF_vars(GetDialer(u) \/ DialHost(u) \/ SendMail(u) \/ SendDelayedMail(u))
       /\ WF_vars(Tick(u))

--------------------------------------------------------------------------
\* Reading the call log of goroutine u.
Pos(u) == 1..Len(calls[u])

Outcomes == {"Success", "Backoff", "Error"}

\* the entries of sendMail: one delivery-loop invocation each
Starts(u) == {x \in Pos(u) : calls[u][x].op = "sendMail"}

\* the position of the return of the invocation entered at x, or one past the
\* end of the log while it has not returned
End(u, x) ==
  LET R == {y \in Pos(u) : y > x /\ calls[u][y].op = "return"}
  IN IF R = {} THEN Len(calls[u]) + 1
               ELSE CHOOSE y \in R : \A z \in R : y <= z

HasReturned(u, x) == End(u, x) <= Len(calls[u])

\* the log positions of the invocation entered at x
Seg(u, x) == {q \in Pos(u) : x <= q /\ q <= End(u, x)}

\* the messages the invocation entered at x was given
InvMsgs(u, x) == IF Delay[u] <= 0 THEN 1..Mails[u] ELSE {calls[u][x].m}

\* how many calls with an op of ops message m received at the positions S
Count(u, S, ops, m) ==
  Cardinality({q \in S : calls[u][q].op \in ops /\ calls[u][q].m = m})

--------------------------------------------------------------------------
\* C1.  The invocation entered at x has returned, its initial dialHost
\* returned a connection, every Generate and every Send succeeded and the
\* context was never cancelled.
AllWentWell(u, x) ==
  /\ HasReturned(u, x)
  /\ ~cancelled
  /\ calls[u][x + 1].op = "Dial"
  /\ \A q \in Seg(u, x) :
       calls[u][q].op \in {"Generate", "Send", "dialHost"} => calls[u][q].err = NoErr

\* C1: when the initial connection acquisition, every render and every send of
\* a sendMail invocation succeed and cancellation never fires, each message
\* receives exactly one Success() and no Backoff()/Error(), the Success() calls
\* are in batch order, and the connection is closed exactly once, after the
\* last Success().
C1_AllSucceed ==
  \A u \in Units : \A x \in Starts(u) :
    AllWentWell(u, x) =>
      /\ \A m \in InvMsgs(u, x) :
           /\ Count(u, Pos(u), {"Success"}, m) = 1
           /\ Count(u, Pos(u), {"Backoff", "Error"}, m) = 0
      /\ \A p, q \in Seg(u, x) :
           /\ calls[u][p].op = "Success"
           /\ calls[u][q].op = "Success"
           /\ calls[u][p].m < calls[u][q].m
           => p < q
      /\ Cardinality({q \in Seg(u, x) : calls[u][q].op = "Close"}) = 1
      /\ \A q \in Seg(u, x) :
           calls[u][q].op = "Close" =>
             /\ calls[u][q].conn = calls[u][x + 1].conn
             /\ \A p \in Seg(u, x) : calls[u][p].op = "Success" => p < q

\* a plain batch of at least two messages went through without any failure
C1_Witness ==
  \E u \in Units : \E x \in Starts(u) :
    AllWentWell(u, x) /\ Delay[u] <= 0 /\ Mails[u] >= 2

--------------------------------------------------------------------------
\* C2: in every reachable state each message of every batch has received at
\* most one outcome call in total across Success(), Backoff() and Error(), and
\* outcome calls go to messages of the batch only.
C2_AtMostOneOutcome ==
  \A u \in Units :
    /\ \A m \in 1..Mails[u] : Count(u, Pos(u), Outcomes, m) <= 1
    /\ \A q \in Pos(u) : calls[u][q].op \in Outcomes => calls[u][q].m \in 1..Mails[u]

\* a batch ended by a failed reconnection at its second message: the first
\* message was sent, and every message has its one outcome
C2_Witness ==
  \E u \in Units :
    /\ pc[u] = "done"
    /\ Mails[u] >= 2
    /\ \E q \in Pos(u) : calls[u][q] = Ev("Success", 1, 0, NoErr)
    /\ \E q \in Pos(u) :
         /\ calls[u][q].op = "Error"
         /\ calls[u][q].m = 2
         /\ calls[u][q].err.kind = "max"
    /\ \A m \in 1..Mails[u] : Count(u, Pos(u), Outcomes, m) = 1

--------------------------------------------------------------------------
\* C3: every connection a sendMail invocation obtained from Dial(), the first
\* one and any obtained by a reconnection, has been closed when the invocation
\* returns.
C3_EveryConnectionClosed ==
  \A u \in Units : \A x \in Starts(u) :
    HasReturned(u, x) =>
      \A q \in Seg(u, x) :
        calls[u][q].op = "Dial" =>
          \E r \in Seg(u, x) :
            calls[u][r].op = "Close" /\ calls[u][r].conn = calls[u][q].conn

--------------------------------------------------------------------------
\* C4.  The initial dialHost of the invocation entered at x returned
\* ErrMaxConnectAttempts.
InitialDialFailed(u, x) ==
  /\ x + 1 <= Len(calls[u])
  /\ calls[u][x + 1].op = "dialHost"
  /\ calls[u][x + 1].err.kind = "max"

\* C4: when the initial connection acquisition of a sendMail invocation fails
\* by reaching the attempt ceiling, no message is rendered or sent, no
\* Success() or Backoff() is called, no message receives more than one Error(),
\* and once the invocation has returned every message it was given has
\* received exactly one Error().
C4_InitialDialFails ==
  \A u \in Units : \A x \in Starts(u) :
    InitialDialFailed(u, x) =>
      /\ \A q \in Seg(u, x) :
           calls[u][q].op \notin {"Generate", "Send", "Success", "Backoff", "Dial"}
      /\ \A m \in InvMsgs(u, x) : Count(u, Pos(u), Outcomes, m) <= 1
      /\ HasReturned(u, x) =>
           \A m \in InvMsgs(u, x) : Count(u, Pos(u), {"Error"}, m) = 1

\* sendMail returned after failing to connect for a plain batch of two or more
C4_Witness ==
  \E u \in Units : \E x \in Starts(u) :
    /\ InitialDialFailed(u, x)
    /\ HasReturned(u, x)
    /\ Delay[u] <= 0
    /\ Mails[u] >= 2

--------------------------------------------------------------------------
\* C5, C6.  The call at p is a Send that failed with a *textproto.Error.
ProtoFailure(u, p) == calls[u][p].op = "Send" /\ calls[u][p].err.kind = "proto"

\* the invocation the call at p belongs to
InvOf(u, p) == CHOOSE x \in Starts(u) : p \in Seg(u, x)

\* After the two calls that answer the failure at p the loop goes on with the
\* same connection and without dialling: the next call, if any, is the render
\* of the next message or the deferred Close, a later Send of the next message
\* uses the connection of p, and when the context is not cancelled and the
\* invocation has returned the next message was rendered.
GoesOnAfter(u, p) ==
  LET m == calls[u][p].m
      x == InvOf(u, p)
  IN /\ p + 3 <= Len(calls[u]) =>
          \/ calls[u][p + 3] = Ev("Generate", m + 1, 0, NoErr)
          \/ calls[u][p + 3] = Ev("Generate", m + 1, 0, RenderErr)
          \/ calls[u][p + 3] = Ev("Close", 0, calls[u][x + 1].conn, NoErr)
     /\ \A q \in Seg(u, x) :
          calls[u][q].op = "Send" /\ calls[u][q].m = m + 1 =>
            calls[u][q].conn = calls[u][p].conn
     /\ HasReturned(u, x) /\ ~cancelled /\ m + 1 \in InvMsgs(u, x) =>
          calls[u][p + 3].op = "Generate"

\* C5: when the send of message i fails with a reply code in 400..499, message
\* i receives exactly one Backoff() carrying that error and no other outcome,
\* Reset() is called once on the current connection, no Dial() is made, and
\* absent cancellation the next messages are still attempted on the same
\* connection.
C5_TemporaryFailure ==
  \A u \in Units : \A p \in Pos(u) :
    /\ ProtoFailure(u, p)
    /\ calls[u][p].err.code >= 400
    /\ calls[u][p].err.code <= 499
    => /\ calls[u][p + 1] = Ev("Backoff", calls[u][p].m, 0, calls[u][p].err)
       /\ calls[u][p + 2] = Ev("Reset", 0, calls[u][p].conn, NoErr)
       /\ Count(u, Pos(u), Outcomes, calls[u][p].m) = 1
       /\ GoesOnAfter(u, p)

\* the first of two messages was answered 400 or 499, the second was sent on
\* the same connection, and sendMail returned without cancellation
C5_Witness ==
  \E u \in Units : \E p \in Pos(u) : \E c \in {400, 499} :
    /\ calls[u][p].op = "Send"
    /\ calls[u][p].m = 1
    /\ calls[u][p].err = ProtoErr(c)
    /\ HasReturned(u, InvOf(u, p))
    /\ ~cancelled
    /\ \E q \in Pos(u) : calls[u][q] = Ev("Send", 2, calls[u][p].conn, NoErr)

\* C6: when the send of message i fails with a reply code outside 400..499 (in
\* 500..599 or any other), message i receives exactly one Error() and never a
\* Backoff(), Reset() is called once on the current connection, and absent
\* cancellation the next messages are still attempted.
C6_PermanentFailure ==
  \A u \in Units : \A p \in Pos(u) :
    /\ ProtoFailure(u, p)
    /\ ~(calls[u][p].err.code >= 400 /\ calls[u][p].err.code <= 499)
    => /\ calls[u][p + 1] = Ev("Error", calls[u][p].m, 0, calls[u][p].err)
       /\ calls[u][p + 2] = Ev("Reset", 0, calls[u][p].conn, NoErr)
       /\ Count(u, Pos(u), Outcomes, calls[u][p].m) = 1
       /\ Count(u, Pos(u), {"Backoff"}, calls[u][p].m) = 0
       /\ GoesOnAfter(u, p)

\* the first of two messages was answered 500, or 399, the second was sent,
\* and sendMail returned without cancellation
C6_Witness ==
  \E u \in Units : \E p \in Pos(u) : \E c \in {399, 500} :
    /\ calls[u][p].op = "Send"
    /\ calls[u][p].m = 1
    /\ calls[u][p].err = ProtoErr(c)
    /\ HasReturned(u, InvOf(u, p))
    /\ ~cancelled
    /\ \E q \in Pos(u) : calls[u][q] = Ev("Send", 2, calls[u][p].conn, NoErr)

--------------------------------------------------------------------------
\* C7, C8.  The call at p is a Send that failed with an error that is no
\* *textproto.Error; the return of the dialHost that follows it is at Redial.
ConnFailure(u, p) == calls[u][p].op = "Send" /\ calls[u][p].err.kind = "conn"

\* the position of the return of the dialHost called for the failure at p
Redial(u, p) ==
  IF p + 1 <= Len(calls[u]) /\ calls[u][p + 1].op = "Dial" THEN p + 2 ELSE p + 1

Reconnected(u, p) ==
  /\ ConnFailure(u, p)
  /\ Redial(u, p) <= Len(calls[u])
  /\ calls[u][Redial(u, p)].op = "dialHost"
  /\ calls[u][Redial(u, p)].conn # Nil

\* the connection the latest Dial() before position q returned
LatestConn(u, q) ==
  LET D == {d \in 1..(q - 1) : calls[u][d].op = "Dial"}
  IN calls[u][CHOOSE d \in D : \A z \in D : z <= d].conn

\* C7: when the send of message i fails with a connection-level error and the
\* connection acquisition that follows succeeds, message i receives exactly one
\* Backoff() whose reason is the error of that send, Reset() is not called, and
\* every later send of the invocation goes to the connection dialled last and
\* never to the connection that failed.
C7_Reconnected ==
  \A u \in Units : \A p \in Pos(u) :
    Reconnected(u, p) =>
      LET r == Redial(u, p)
          x == InvOf(u, p)
      IN /\ calls[u][r].conn # calls[u][p].conn
         /\ calls[u][r + 1] = Ev("Backoff", calls[u][p].m, 0, calls[u][p].err)
         /\ Count(u, Pos(u), Outcomes, calls[u][p].m) = 1
         /\ r + 2 <= Len(calls[u]) => calls[u][r + 2].op # "Reset"
         /\ \A q \in Seg(u, x) :
              q > p /\ calls[u][q].op = "Send" =>
                /\ calls[u][q].m > calls[u][p].m
                /\ calls[u][q].conn # calls[u][p].conn
                /\ calls[u][q].conn = LatestConn(u, q)
                /\ LatestConn(u, q) # LatestConn(u, p)

\* the first of two messages lost its connection, a new one was dialled and
\* the second message was sent on it
C7_Witness ==
  \E u \in Units : \E p \in Pos(u) :
    /\ Reconnected(u, p)
    /\ calls[u][p].m = 1
    /\ \E q \in Pos(u) :
         calls[u][q] = Ev("Send", 2, calls[u][Redial(u, p)].conn, NoErr)

\* the dialHost called for the failure at p returned ErrMaxConnectAttempts
ReconnectFailed(u, p) ==
  /\ ConnFailure(u, p)
  /\ p + 1 <= Len(calls[u])
  /\ calls[u][p + 1].op = "dialHost"
  /\ calls[u][p + 1].err.kind = "max"

\* C8: when the send of message i fails with a connection-level error and the
\* connection acquisition that follows fails by reaching the attempt ceiling,
\* the invocation performs no further render, send or dial and notifies nothing
\* but Error(); none of the messages i..n receives a Success() or a Backoff()
\* or a second Error(), and once the invocation has returned each of them has
\* received exactly one Error().
C8_ReconnectFails ==
  \A u \in Units : \A p \in Pos(u) :
    ReconnectFailed(u, p) =>
      LET x == InvOf(u, p)
          rest == {m \in InvMsgs(u, x) : m >= calls[u][p].m}
      IN /\ \A q \in Seg(u, x) :
              q > p + 1 => calls[u][q].op \in {"Error", "Close", "return"}
         /\ \A m \in rest :
              /\ Count(u, Pos(u), {"Success", "Backoff"}, m) = 0
              /\ Count(u, Pos(u), {"Error"}, m) <= 1
         /\ HasReturned(u, x) =>
              \A m \in rest : Count(u, Pos(u), {"Error"}, m) = 1

\* the first of two messages lost its connection, the reconnection failed and
\* sendMail returned
C8_Witness ==
  \E u \in Units : \E p \in Pos(u) :
    /\ ReconnectFailed(u, p)
    /\ calls[u][p].m = 1
    /\ Mails[u] >= 2
    /\ Delay[u] <= 0
    /\ HasReturned(u, InvOf(u, p))

--------------------------------------------------------------------------
\* C9.  The initial dialHost of the invocation entered at x found the context
\* cancelled: it returned no sender and no error, without a Dial().
CancelledStart(u, x) ==
  /\ x + 1 <= Len(calls[u])
  /\ calls[u][x + 1] = Ev("dialHost", 0, Nil, NoErr)

\* C9: when cancellation has fired before sendMail begins its initial
\* connection acquisition, dialHost returns no connection and no error without
\* calling Dial(), and sendMail returns normally: no outcome, no render, no
\* send, no Send, Reset or Close on the absent connection, no fault.
C9_CancelledStartReturns ==
  \A u \in Units : \A x \in Starts(u) :
    CancelledStart(u, x) =>
      /\ pc[u] # "fault"
      /\ \A q \in Seg(u, x) : q > x + 1 => calls[u][q].op = "return"

--------------------------------------------------------------------------
\* C10: when cancellation fires while sendMail is processing message i (after
\* the select of the range loop for i, during the render, the send or the
\* reconnection of i), no message after i is ever rendered, sent or notified
\* an outcome.
C10_CancelMidBatch ==
  \A u \in Units :
    cancelAt[u] > 0 =>
      \A q \in Pos(u) :
        calls[u][q].op \in Outcomes \cup {"Generate", "Send"} =>
          calls[u][q].m <= cancelAt[u]

--------------------------------------------------------------------------
\* C11: for a batch dispatched with a positive pacing interval, the delivery
\* of message k does not start before the k-th tick of the batch's ticker, at
\* most one delivery is started per tick, message k is delivered by the k-th
\* sendMail invocation, which begins with its own dialHost, and no connection
\* is used for two messages of the batch.
C11_Paced ==
  \A u \in Units :
    Delay[u] > 0 =>
      /\ Cardinality(Starts(u)) <= ticks[u]
      /\ \A x \in Starts(u) :
           /\ calls[u][x].m = Cardinality({y \in Starts(u) : y <= x})
           /\ calls[u][x].m <= ticks[u]
           /\ x + 1 <= Len(calls[u]) => calls[u][x + 1].op \in {"Dial", "dialHost"}
           /\ \A q \in Seg(u, x) :
                calls[u][q].op \in Outcomes \cup {"Generate", "Send"} =>
                  calls[u][q].m = calls[u][x].m
      /\ \A p, q \in Pos(u) :
           /\ calls[u][p].op = "Send"
           /\ calls[u][q].op = "Send"
           /\ calls[u][p].m # calls[u][q].m
           => calls[u][p].conn # calls[u][q].conn

\* a paced batch of two messages was delivered: two ticks, two invocations,
\* two connections
C11_Witness ==
  \E u \in Units :
    /\ Delay[u] > 0
    /\ pc[u] = "done"
    /\ Cardinality(Starts(u)) = 2
    /\ \E p, q \in Pos(u) :
         /\ calls[u][p] = Ev("Send", 1, 1, NoErr)
         /\ calls[u][q] = Ev("Send", 2, 2, NoErr)

--------------------------------------------------------------------------
\* C12.  ms[0].GetDialer() of batch u returned an error.
GetDialerFailed(u) ==
  /\ Len(calls[u]) >= 1
  /\ calls[u][1] = Ev("GetDialer", 1, 0, GetDialerErr)

\* C12: when obtaining the dialer from the first message of a batch fails,
\* every message of the batch receives exactly one Error() carrying that
\* failure, in batch order, and the goroutine does nothing else: no Dial(), no
\* render, no send, no Success() or Backoff(), whatever the pacing interval.
C12_GetDialerFails ==
  \A u \in Units :
    GetDialerFailed(u) =>
      /\ pc[u] = "done"
      /\ Len(calls[u]) = Mails[u] + 1
      /\ \A m \in 1..Mails[u] : calls[u][m + 1] = Ev("Error", m, 0, GetDialerErr)

\* GetDialer failed for a paced batch of two messages
C12_Witness ==
  \E u \in Units : GetDialerFailed(u) /\ Delay[u] > 0 /\ Mails[u] >= 2

--------------------------------------------------------------------------
\* C13: within one batch, plain or paced, whatever fails and whenever the
\* context is cancelled, messages are rendered and sent in batch order, and
\* when message j receives an outcome call every message i < j of the batch
\* has received its outcome call before.
C13_InOrder ==
  \A u \in Units :
    /\ \A p, q \in Pos(u) :
         /\ p < q
         /\ calls[u][p].op \in {"Generate", "Send"}
         /\ calls[u][q].op \in {"Generate", "Send"}
         => calls[u][p].m <= calls[u][q].m
    /\ \A q \in Pos(u) :
         calls[u][q].op \in Outcomes =>
           \A m \in 1..(calls[u][q].m - 1) :
             \E p \in 1..(q - 1) : calls[u][p].op \in Outcomes /\ calls[u][p].m = m

\* the render of the first message failed, the second lost its connection and
\* was backed off after a reconnection, and the context was cancelled
C13_Witness ==
  \E u \in Units : \E p, q \in Pos(u) :
    /\ cancelled
    /\ p < q
    /\ calls[u][p] = Ev("Error", 1, 0, RenderErr)
    /\ calls[u][q] = Ev("Backoff", 2, 0, ConnErr)

--------------------------------------------------------------------------
\* C14: dialHost, while the context is not cancelled, calls Dial() until one
\* call succeeds or 10 calls have failed, and never more than 10 times: it
\* returns the connection of the first Dial() that succeeded and no error, or
\* no connection and ErrMaxConnectAttempts wrapping the error of the 10th
\* Dial().  (sendAttempt counts the failed calls; the dialHost at "dialHost"
\* is about to make call sendAttempt + 1.)
C14_DialHost ==
  /\ MaxReconnectAttempts = 10
  /\ \A u \in Units :
       /\ sendAttempt[u] < 10
       /\ pc[u] = "dialHost" /\ sendAttempt[u] > 0 =>
            /\ err[u] = DialErr(sendAttempt[u])
            /\ calls[u][Len(calls[u])].op \in {"sendMail", "Send"}
       /\ ~cancelled =>
            \A r \in Pos(u) :
              calls[u][r].op = "dialHost" =>
                \/ /\ calls[u][r].err = NoErr
                   /\ calls[u][r].conn # Nil
                   /\ calls[u][r - 1] = Ev("Dial", 0, calls[u][r].conn, NoErr)
                \/ /\ calls[u][r].err = ErrMaxConnectAttempts(DialErr(10))
                   /\ calls[u][r].conn = Nil
                   /\ calls[u][r - 1].op \in {"sendMail", "Send"}

\* without cancellation, a first dialHost returned a connection and the
\* dialHost of a reconnection returned ErrMaxConnectAttempts
C14_Witness ==
  \E u \in Units : \E r, t \in Pos(u) :
    /\ ~cancelled
    /\ r < t
    /\ calls[u][r].op = "dialHost"
    /\ calls[u][r].conn # Nil
    /\ calls[u][t].op = "dialHost"
    /\ calls[u][t].err.kind = "max"

--------------------------------------------------------------------------
\* C15.  The dialHost that returned at r observed the cancellation in its
\* select: it returned no sender and no error.
ObservedInDialHost(u, r) == calls[u][r] = Ev("dialHost", 0, Nil, NoErr)

\* C15: once a cancellation check of a sendMail invocation has observed the
\* cancellation, the invocation makes no further outcome call.  (The check of
\* the range loop returns at once; the check of dialHost makes dialHost return
\* no sender and no error, at the start of sendMail or in a reconnection.)
C15_NoOutcomeOnceObserved ==
  \A u \in Units : \A r \in Pos(u) :
    ObservedInDialHost(u, r) =>
      \A q \in Pos(u) : q > r => calls[u][q].op \notin Outcomes

--------------------------------------------------------------------------
\* C16.  The call at p is a Generate that failed.
RenderFailure(u, p) == calls[u][p].op = "Generate" /\ calls[u][p].err # NoErr

\* C16: when the render of message i fails, message i receives exactly one
\* Error(), carrying the render error, and no other outcome; no Send, Reset or
\* Dial is made for it: the next call is the render of message i+1, or the
\* deferred Close() when sendMail returns; and a send of message i+1 uses the
\* connection that was current at the failure.
C16_RenderFails ==
  \A u \in Units : \A p \in Pos(u) :
    RenderFailure(u, p) =>
      LET m == calls[u][p].m
          x == InvOf(u, p)
      IN /\ calls[u][p + 1] = Ev("Error", m, 0, calls[u][p].err)
         /\ Count(u, Pos(u), Outcomes, m) = 1
         /\ \A q \in Pos(u) : calls[u][q].op = "Send" => calls[u][q].m # m
         /\ p + 2 <= Len(calls[u]) =>
              \/ calls[u][p + 2].op = "Generate" /\ calls[u][p + 2].m = m + 1
              \/ calls[u][p + 2] = Ev("Close", 0, calls[u][x + 1].conn, NoErr)
         /\ \A q \in Seg(u, x) :
              calls[u][q].op = "Send" /\ calls[u][q].m = m + 1 =>
                calls[u][q].conn = LatestConn(u, p)
         /\ HasReturned(u, x) /\ ~cancelled /\ m + 1 \in InvMsgs(u, x) =>
              calls[u][p + 2].op = "Generate"

\* the render of the first of two messages failed, the second was sent on the
\* connection dialled at the start, and sendMail returned
C16_Witness ==
  \E u \in Units : \E p, q \in Pos(u) :
    /\ RenderFailure(u, p)
    /\ calls[u][p].m = 1
    /\ calls[u][q] = Ev("Send", 2, 1, NoErr)
    /\ HasReturned(u, InvOf(u, p))

--------------------------------------------------------------------------
\* C17: for a batch dispatched with a positive pacing interval, when the send
\* of message i fails with a connection-level error and the reconnection
\* fails at the attempt ceiling, the work on the batch stops: no later Dial(),
\* render or send is made, no message receives anything but Error(), and once
\* the goroutine is done each of the messages i..n has received an Error().
\* (Stated for runs without cancellation.)
C17_PacedReconnectFails ==
  \A u \in Units : \A p \in Pos(u) :
    ~cancelled /\ Delay[u] > 0 /\ ReconnectFailed(u, p) =>
      /\ \A q \in Pos(u) :
           q > p + 1 => calls[u][q].op \in {"Error", "Close", "return"}
      /\ pc[u] = "done" =>
           \A m \in calls[u][p].m..Mails[u] : Count(u, Pos(u), {"Error"}, m) = 1

--------------------------------------------------------------------------
\* C18.  sendMail was called for the plain batch u; it has returned.
PlainEntered(u) == Delay[u] <= 0 /\ Starts(u) # {}
PlainReturned(u) == PlainEntered(u) /\ \A x \in Starts(u) : HasReturned(u, x)

\* C18: absent cancellation, whatever renders, sends and dials fail, a plain
\* sendMail invocation returns (unless the process is brought down by another
\* goroutine), and when it has returned every message of the batch has
\* received exactly one outcome call.
C18_Terminates ==
  \A u \in Units :
    /\ [](PlainEntered(u) => <>(PlainReturned(u) \/ cancelled \/ Crashed))
    /\ [](PlainReturned(u) /\ ~cancelled =>
            \A m \in 1..Mails[u] : Count(u, Pos(u), Outcomes, m) = 1)

\* without cancellation sendMail returned for a plain batch of two: the first
\* message was backed off after a temporary rejection, the second was errored
\* out after a reconnection that failed
C18_Witness ==
  \E u \in Units :
    /\ PlainReturned(u)
    /\ ~cancelled
    /\ Mails[u] = 2
    /\ \E p \in Pos(u) : calls[u][p] = Ev("Backoff", 1, 0, ProtoErr(400))
    /\ \E q \in Pos(u) :
         calls[u][q] = Ev("Error", 2, 0, ErrMaxConnectAttempts(DialErr(10)))

--------------------------------------------------------------------------
\* C19: once the context is cancelled, Start can still take the ctx.Done()
\* case of its select and return, whatever the producers offer and whatever
\* the goroutines of the batches are doing; and once Start has returned no
\* batch is received.  (Stated for runs in which every batch carries a
\* message.)
C19_StartReturns ==
  /\ cancelled /\ ~returned /\ (\A u \in Units : u <= launched => Mails[u] > 0) =>
       ENABLED StartReturn
  /\ returned => ~ENABLED (\E n \in 0..MaxMsgs, d \in Delays : Receive(n, d))

--------------------------------------------------------------------------
\* C20: the goroutine of an empty batch does not fault, and makes no call.
C20_EmptyBatch ==
  \A u \in Units :
    u <= launched /\ Mails[u] = 0 =>
      /\ pc[u] # "fault"
      /\ calls[u] = <<>>

====
